---- MODULE Spec2Model ----
(***************************************************************************)
(* DevShop: the batch generation pipeline.                                 *)
(*                                                                         *)
(*   src/app/api/generate/route.ts   POST (the batch scheduler and the     *)
(*                                   progress stream), CSVParser           *)
(*   src/lib/appGenerator.ts         AppGenerator.generateApp,             *)
(*                                   validateImports                       *)
(*   src/lib/vercelDeployer.ts       VercelDeployer.deployApp              *)
(*                                                                         *)
(* Text is modelled as a sequence of atoms: the punctuation "/", ".", "@"  *)
(* and " " are atoms of their own and every other atom is an alphanumeric  *)
(* word, so that startsWith, endsWith, replace and the path functions are  *)
(* computed on the text as the code computes them.                         *)
(***************************************************************************)
EXTENDS Integers, Sequences, FiniteSets, TLC

\* ------------------------------------------------------------------ bounds
MaxSpecs == 3
MaxCpus == 3
MaxImports == 1
MaxFaults == 1
MaxBatchPolls == 1
MaxMonitored == 2

\* ------------------------------------------------------------ text helpers
StartsWith(s, p) == Len(s) >= Len(p) /\ SubSeq(s, 1, Len(p)) = p

EndsWith(s, p) == Len(s) >= Len(p) /\ SubSeq(s, Len(s) - Len(p) + 1, Len(s)) = p

\* The segments of s between "/" separators (String.prototype.split('/')).
RECURSIVE SplitSlash(_)
SplitSlash(s) ==
  IF \A k \in 1..Len(s) : s[k] # "/" THEN <<s>>
  ELSE LET k == CHOOSE k \in 1..Len(s) : s[k] = "/" /\ \A m \in 1..(k - 1) : s[m] # "/"
       IN  <<SubSeq(s, 1, k - 1)>> \o SplitSlash(SubSeq(s, k + 1, Len(s)))

RECURSIVE JoinSlash(_)
JoinSlash(segs) ==
  IF segs = <<>> THEN <<>>
  ELSE IF Len(segs) = 1 THEN segs[1]
  ELSE segs[1] \o <<"/">> \o JoinSlash(Tail(segs))

Dot == <<".">>
DotDot == <<".", ".">>

\* node path (posix) normalizeString: drops empty and "." segments and
\* resolves ".." against the segments kept so far.
RECURSIVE NormalizeSegments(_, _, _)
NormalizeSegments(segs, acc, allowAboveRoot) ==
  IF segs = <<>> THEN acc
  ELSE LET seg == Head(segs)
           rest == Tail(segs)
       IN  IF seg = <<>> \/ seg = Dot
             THEN NormalizeSegments(rest, acc, allowAboveRoot)
           ELSE IF seg = DotDot
             THEN IF acc # <<>> /\ acc[Len(acc)] # DotDot
                    THEN NormalizeSegments(rest, SubSeq(acc, 1, Len(acc) - 1), allowAboveRoot)
                  ELSE IF allowAboveRoot
                    THEN NormalizeSegments(rest, Append(acc, seg), allowAboveRoot)
                  ELSE NormalizeSegments(rest, acc, allowAboveRoot)
           ELSE NormalizeSegments(rest, Append(acc, seg), allowAboveRoot)

\* node path.normalize (posix).
PathNormalize(p) ==
  IF p = <<>> THEN Dot
  ELSE LET isAbsolute == p[1] = "/"
           trailing == p[Len(p)] = "/"
           body == JoinSlash(NormalizeSegments(SplitSlash(p), <<>>, ~isAbsolute))
       IN  IF body = <<>>
             THEN (IF isAbsolute THEN <<"/">> ELSE IF trailing THEN <<".", "/">> ELSE Dot)
           ELSE (IF isAbsolute THEN <<"/">> ELSE <<>>) \o body
                \o (IF trailing THEN <<"/">> ELSE <<>>)

\* node path.join (posix) of two arguments.
PathJoin(a, b) ==
  LET joined == IF a = <<>> THEN b
                ELSE IF b = <<>> THEN a
                ELSE a \o <<"/">> \o b
  IN  IF joined = <<>> THEN Dot ELSE PathNormalize(joined)

\* node path.dirname (posix): everything before the last "/" that is followed
\* by a non-slash character; "." when there is none.
PathDirname(p) ==
  IF p = <<>> THEN Dot
  ELSE LET hasRoot == p[1] = "/"
           cuts == {k \in 2..Len(p) : p[k] = "/" /\ \E m \in (k + 1)..Len(p) : p[m] # "/"}
       IN  IF cuts = {} THEN (IF hasRoot THEN <<"/">> ELSE Dot)
           ELSE LET end == CHOOSE k \in cuts : \A m \in cuts : m <= k
                IN  SubSeq(p, 1, end - 1)

\* ------------------------------------------------- FileSets and their text
\* A FileSet is the sequence of [path, content] entries of the files object
\* in insertion order (Object.entries), with pairwise different paths.  The
\* content of a file is the sequence of its statements; each statement has
\* the form it is written in and the quoted module path it names.
Stmt(kind, path) == [kind |-> kind, path |-> path]

File(path, content) == [path |-> path, content |-> content]

HasKey(files, key) == \E i \in 1..Len(files) : files[i].path = key

TsxExt == <<".", "tsx">>
TsExt == <<".", "ts">>
CssExt == <<".", "css">>
AliasPrefix == <<"@", "/">>

\* importRegex: `import`, white space, optionally anything on the same line
\* up to `from`, then a quoted path.  It matches an import written on one
\* line, with or without a from clause; `.` does not cross a line break, and
\* `export ... from` and `import(...)` do not start with `import\s`.
ImportRegexMatches(stmt) == stmt.kind \in {"import_from", "import_side"}

ExtractImports(content) ==
  LET matched == SelectSeq(content, ImportRegexMatches)
  IN  [k \in 1..Len(matched) |-> matched[k].path]

\* Mutant: every path that starts with "@" is taken for an alias.
IsValidatedImportAnyAt(importPath) ==
  StartsWith(importPath, <<"@">>) \/ StartsWith(importPath, Dot)

\* The condition of the `if` that selects the imports to validate.
IsValidatedImport(importPath) ==
  \/ StartsWith(importPath, AliasPrefix)
  \/ (StartsWith(importPath, Dot) /\ ~StartsWith(importPath, AliasPrefix))

NormalizedImportPath(filePath, importPath) ==
  IF StartsWith(importPath, AliasPrefix)
    THEN SubSeq(importPath, 3, Len(importPath))
  ELSE PathNormalize(PathJoin(PathDirname(filePath), importPath))

ImportFileWithExt(importPath, normalizedImportPath) ==
  (IF EndsWith(importPath, CssExt) THEN <<normalizedImportPath>> ELSE <<>>)
  \o << normalizedImportPath \o TsxExt,
        normalizedImportPath \o TsExt,
        normalizedImportPath \o <<"/", "index">> \o TsxExt,
        normalizedImportPath \o <<"/", "index">> \o TsExt >>

ImportExists(files, filePath, importPath) ==
  LET cands == ImportFileWithExt(importPath, NormalizedImportPath(filePath, importPath))
  IN  \E c \in 1..Len(cands) : HasKey(files, cands[c])

IsCheckedFile(filePath) == EndsWith(filePath, TsxExt) \/ EndsWith(filePath, TsExt)

\* The entries pushed to missingImports for one file, in source order.
MissingInFile(files, file) ==
  IF ~IsCheckedFile(file.path) THEN <<>>
  ELSE LET imports == ExtractImports(file.content)
           bad(p) == IsValidatedImport(p) /\ ~ImportExists(files, file.path, p)
           missing == SelectSeq(imports, bad)
       IN  [k \in 1..Len(missing) |-> [filePath |-> file.path, importPath |-> missing[k]]]

RECURSIVE MissingFrom(_, _)
MissingFrom(files, k) ==
  IF k > Len(files) THEN <<>>
  ELSE MissingInFile(files, files[k]) \o MissingFrom(files, k + 1)

MissingImports(files) == MissingFrom(files, 1)

\* What is raised: an Error object with a message, or a value that is not
\* an Error.  A message is its fixed text and, for the import error, the
\* list of "<file> imports <path> but file not found" items joined into it.
Message(text) == [text |-> text, missing |-> <<>>]

ErrorOf(msg) == [isError |-> TRUE, message |-> msg]

NonError == [isError |-> FALSE, message |-> Message("")]

Returned(value) == [threw |-> FALSE, pending |-> FALSE, value |-> value]

Threw(err) == [threw |-> TRUE, pending |-> FALSE, error |-> err]

\* Mutant: the missing imports are logged but nothing is raised.
validateImportsLogOnly(files) == Returned("void")

validateImports(files) ==
  LET missingImports == MissingImports(files)
  IN  IF Len(missingImports) > 0
        THEN Threw(ErrorOf([text |-> "Cannot deploy app with missing imports",
                            missing |-> missingImports]))
      ELSE Returned("void")

\* --------------------------------------------------------- specifications
\* App names and ideas are sequences of characters.
Lower(c) == IF c = "A" THEN "a" ELSE IF c = "B" THEN "b" ELSE c

LowerAlnum == {"a", "b", "1"}

RECURSIVE TrimLeft(_)
TrimLeft(s) == IF s # <<>> /\ Head(s) = " " THEN TrimLeft(Tail(s)) ELSE s

RECURSIVE TrimRight(_)
TrimRight(s) ==
  IF s # <<>> /\ s[Len(s)] = " " THEN TrimRight(SubSeq(s, 1, Len(s) - 1)) ELSE s

Trim(s) == TrimRight(TrimLeft(s))

\* tech_stack?.toLowerCase().includes('react'); an absent tech_stack is <<>>.
Undefined == <<>>

PythonReact == <<"Python", "/", "React">>

Python == <<"Python">>

LowerWord(w) == IF w = "React" THEN "react" ELSE IF w = "Python" THEN "python" ELSE w

IsReact(tech_stack) ==
  tech_stack # Undefined /\ \E k \in 1..Len(tech_stack) : LowerWord(tech_stack[k]) = "react"

AppSpecification(name, tech_stack) == [name |-> name, tech_stack |-> tech_stack]

\* ideas.map(idea => ({name: idea.trim(), ..., tech_stack: 'Python/React'}))
IdeasToSpecifications(ideas) ==
  [k \in 1..Len(ideas) |-> AppSpecification(Trim(ideas[k]), PythonReact)]

\* CSVParser.  A CSV document is the set of columns its header resolves
\* (findColumn # -1) and its data rows; a row says whether it has enough
\* cells for the required columns, and the cleaned name, description and
\* tech_stack cells.
RequiredColumns ==
  {"name", "description", "app_goal", "target_user", "main_problem", "design_preferences"}

RECURSIVE ParseRows(_, _)
ParseRows(rows, columns) ==
  IF rows = <<>> THEN <<>>
  ELSE LET row == Head(rows)
           rest == ParseRows(Tail(rows), columns)
           tech == IF "tech_stack" \in columns
                     THEN (IF row.tech_stack = <<>> THEN PythonReact ELSE row.tech_stack)
                   ELSE Undefined
       IN  IF ~row.enoughCells THEN rest
           ELSE IF row.name = <<>> \/ row.description = <<>> THEN rest
           ELSE <<AppSpecification(row.name, tech)>> \o rest

\* Mutant: the required columns are not checked.
parseCSVContentAnyColumns(csv) ==
  IF 1 + Len(csv.rows) < 2
    THEN Threw(ErrorOf(Message("CSV must have at least a header row and one data row")))
  ELSE LET specifications == ParseRows(csv.rows, csv.columns)
       IN  IF Len(specifications) = 0
             THEN Threw(ErrorOf(Message("No valid app specifications found in CSV")))
           ELSE Returned(specifications)

parseCSVContent(csv) ==
  IF 1 + Len(csv.rows) < 2
    THEN Threw(ErrorOf(Message("CSV must have at least a header row and one data row")))
  ELSE IF RequiredColumns \ csv.columns # {}
    THEN Threw(ErrorOf(Message("Missing required columns")))
  ELSE LET specifications == ParseRows(csv.rows, csv.columns)
       IN  IF Len(specifications) = 0
             THEN Threw(ErrorOf(Message("No valid app specifications found in CSV")))
           ELSE Returned(specifications)

\* ------------------------------------------------------------ the requests
IdeaPool ==
  << <<" ", "A", "b">>, <<"a", "b">>, <<"a", "-", "1">>, <<"a", " ", "1">> >>

IdeaAt(k) == IdeaPool[((k - 1) % Len(IdeaPool)) + 1]

Row(enough, name, description, tech) ==
  [enoughCells |-> enough, name |-> name, description |-> description, tech_stack |-> tech]

RowPool ==
  << Row(TRUE, <<"A", "b">>, <<"d">>, <<>>),
     Row(FALSE, <<"b">>, <<"d">>, Python),
     Row(TRUE, <<"a", "-", "1">>, <<"d">>, Python),
     Row(TRUE, <<>>, <<"d">>, PythonReact) >>

AllColumns == RequiredColumns \cup {"tech_stack"}

Csv(columns, rows) == [absent |-> FALSE, columns |-> columns, rows |-> rows]

\* formData.get('csvFile') is null.
NoFile == [absent |-> TRUE, columns |-> {}, rows |-> <<>>]

Requests ==
  {[kind |-> "json", valid |-> FALSE, ideas |-> <<>>]}
  \cup {[kind |-> "json", valid |-> TRUE, ideas |-> [k \in 1..n |-> IdeaAt(k)]] : n \in 0..MaxSpecs}
  \cup {[kind |-> "form", csvFile |-> NoFile]}
  \cup {[kind |-> "form", csvFile |-> Csv(AllColumns, <<>>)],
        [kind |-> "form", csvFile |-> Csv(AllColumns, RowPool)],
        [kind |-> "form", csvFile |-> Csv(AllColumns, <<RowPool[2], RowPool[4]>>)],
        [kind |-> "form", csvFile |-> Csv(RequiredColumns, <<RowPool[1]>>)],
        [kind |-> "form", csvFile |-> Csv(AllColumns \ {"description"}, <<RowPool[1]>>)]}

\* The environment the process runs in: the generation-service credential,
\* the deployment token and the number of CPUs os.cpus() reports.
Envs ==
  [anthropicKey : BOOLEAN, vercelToken : BOOLEAN, cpuCount : {1, MaxCpus}]

\* Mutant: every CPU is used, without the 0.95 headroom.
MaxConcurrentAllCpus(cpuCount) == IF cpuCount > 1 THEN cpuCount ELSE 1

\* Math.max(1, Math.floor(cpuCount * 0.95))
MaxConcurrentOf(cpuCount) ==
  LET floored == (cpuCount * 95) \div 100
  IN  IF floored > 1 THEN floored ELSE 1

\* --------------------------------------------------- the generation service
\* generateObject returns a files object or raises.  By ResponseSchema an
\* entry of the response is a string, an object {encoding: 'base64', content}
\* or an object {b64}.  A base64 text is a sequence of units: the encoding of
\* one line of content, or a character outside the base64 alphabet.
Corrupt == [valid |-> FALSE, unit |-> Stmt("other", <<>>)]

\* Buffer.from(content).toString('base64')
Base64(content) == [n \in 1..Len(content) |-> [valid |-> TRUE, unit |-> content[n]]]

\* Buffer.from(b64, 'base64').toString('utf8'): characters outside the
\* alphabet are passed over, nothing is raised.
BufferFromBase64(b64) ==
  LET kept == SelectSeq(b64, LAMBDA u : u.valid)
  IN  [n \in 1..Len(kept) |-> kept[n].unit]

RawString(path, content) == [path |-> path, value |-> [kind |-> "string", text |-> content]]

\* The entry {encoding: 'base64', content: text}.
RawEncoded(path, text) == [path |-> path, value |-> [kind |-> "encoded", text |-> text]]

\* The entry {b64: text}.
RawB64(path, text) == [path |-> path, value |-> [kind |-> "b64", text |-> text]]

RawBase64(path, content) == RawEncoded(path, Base64(content))

\* String(value) of an object.
ObjectObject == << Stmt("other", <<"[object Object]">>) >>

\* One round of the decoding loop of generateWithClaude: the base64 branch
\* is taken for encoding === 'base64' or a truthy b64.
DecodeValue(value) ==
  IF value.kind = "encoded" \/ (value.kind = "b64" /\ value.text # <<>>)
    THEN IF value.text = <<>> THEN <<>> ELSE BufferFromBase64(value.text)
  ELSE IF value.kind = "string" THEN value.text
  ELSE ObjectObject

DecodeFiles(raw) == [n \in 1..Len(raw) |-> File(raw[n].path, DecodeValue(raw[n].value))]

PagePath == <<"app", "/", "page", ".", "tsx">>
ButtonPath == <<"components", "/", "Button", ".", "tsx">>
CssPath == <<"app", "/", "globals", ".", "css">>

ResponseOk ==
  << RawBase64(PagePath, << Stmt("import_from", <<"react">>),
                            Stmt("import_from", <<"@", "/", "components", "/", "Button">>),
                            Stmt("import_side", <<".", "/", "globals", ".", "css">>) >>),
     RawBase64(ButtonPath, << Stmt("other", <<>>) >>),
     RawString(CssPath, <<>>) >>

ResponseMissing ==
  << RawBase64(PagePath, << Stmt("import_from", <<"@", "/", "components", "/", "Missing">>) >>),
     RawString(<<"package", ".", "json">>, <<>>) >>

ResponsePython ==
  << RawString(<<"main", ".", "py">>, << Stmt("other", <<>>) >>) >>

ServiceOutcomes ==
  { Returned(ResponseOk), Returned(ResponseMissing), Returned(ResponsePython),
    Threw(ErrorOf(Message("generation service error"))),
    Threw(ErrorOf(Message(""))),
    Threw(NonError) }

\* ------------------------------------------------------------ the deployer
\* name.toLowerCase().replace(/[^a-z0-9]/g, sep)
Sanitize(name, sep) ==
  [k \in 1..Len(name) |-> IF Lower(name[k]) \in LowerAlnum THEN Lower(name[k]) ELSE sep]

Https == <<"https", ":", "/", "/">>

DemoHost == <<"devshop", ".", "local">>

Includes(s, sub) ==
  \E k \in 0..(Len(s) - Len(sub)) : SubSeq(s, k + 1, k + Len(sub)) = sub

createDemoDeployment(appName) ==
  [success |-> TRUE,
   url |-> Https \o <<"demo", "-">> \o Sanitize(appName, "-") \o <<"-", "preview", ".">> \o DemoHost,
   appName |-> appName,
   deploymentId |-> "demo"]

DeploymentFailure(appName, err) ==
  [success |-> FALSE, url |-> Undefined, appName |-> appName,
   error |-> IF err.isError THEN err.message ELSE Message("Unknown deployment error")]

RemoteUrl(appName) == Https \o Sanitize(appName, "-") \o <<".", "vercel", ".", "app">>

\* Mutant: the catch block of deployWithVercelAPI rethrows.
deployWithVercelAPIRethrows(appName, remote) ==
  IF remote = "accepted"
    THEN Returned([success |-> TRUE, url |-> RemoteUrl(appName), appName |-> appName,
                   deploymentId |-> "vercel"])
  ELSE Threw(ErrorOf(Message("Deployment failed")))

\* deployWithVercelAPI: the project lookup and the deployment request are
\* calls to the remote API; whatever either raises leads to the demo result.
deployWithVercelAPI(appName, remote) ==
  IF remote = "accepted"
    THEN Returned([success |-> TRUE, url |-> RemoteUrl(appName), appName |-> appName,
                   deploymentId |-> "vercel"])
  ELSE Returned(createDemoDeployment(appName))

\* deployWithCLI: the vercel command prints a deployment URL, or the call
\* raises (command failure, output on stderr, or no URL in the output).
deployWithCLI(appName, remote) ==
  IF remote = "cli_url"
    THEN Returned([success |-> TRUE, url |-> RemoteUrl(appName), appName |-> appName])
  ELSE Threw(ErrorOf(Message("Could not extract deployment URL from Vercel output")))

\* The two VercelDeployer classes of the repository: the one of
\* src/lib/vercelDeployer.ts, whose createDeployment awaits
\* waitForDeployment, and the one that starts monitorDeploymentInBackground
\* and returns at once.
Awaiting == "awaiting"

Background == "background"

\* for (let i = 0; i < 30; i++) in waitForDeployment
WaitAttempts == 30

\* for (let i = 0; i < 20; i++) in checkDeploymentStatus
MonitorAttempts == 20

\* What one status poll finds: a readyState of the deployment, a response
\* that is not ok, or a fetch that rejects.
PollOutcomes == {"READY", "ERROR", "CANCELED", "BUILDING", "http_error", "network_error"}

\* How the remote side answers one deployApp call, as the caller sees it.
\* With a token: the deployment is accepted (and, when it is awaited, READY
\* in time), the project lookup or creation fails, the deployment request is
\* rejected, or (awaited only) the wait ends in a timeout or a failed poll.
RemoteOutcomes(variant, vercelToken) ==
  IF vercelToken
    THEN {"accepted", "project_error", "deployment_rejected"}
         \cup (IF variant = Awaiting THEN {"deployment_timeout"} ELSE {})
  ELSE {"cli_url", "cli_error"}

\* One round of the loop of waitForDeployment with the poll it makes:
\* "ready" (return), "threw" (the fetch rejected, or the 30 rounds are used
\* up) or "waiting" with the next i.
waitForDeployment(attempt, poll) ==
  IF poll = "network_error" THEN [state |-> "threw", attempt |-> attempt]
  ELSE IF poll = "READY" THEN [state |-> "ready", attempt |-> attempt]
  ELSE IF attempt + 1 < WaitAttempts THEN [state |-> "waiting", attempt |-> attempt + 1]
  ELSE [state |-> "threw", attempt |-> attempt + 1]

\* The background monitor: i of the loop, the polls made, what the last
\* poll found and what was logged when the loop was left.
NewMonitor ==
  [state |-> "polling", attempt |-> 0, polls |-> 0, last |-> "none", log |-> "none"]

\* Mutant: the loop is not left on ERROR or CANCELED.
checkDeploymentStatusReadyOnly(monitor, poll) ==
  IF poll = "READY"
    THEN [monitor EXCEPT !.state = "stopped", !.polls = @ + 1, !.last = poll, !.log = "ready"]
  ELSE IF monitor.attempt + 1 < MonitorAttempts
    THEN [monitor EXCEPT !.attempt = @ + 1, !.polls = @ + 1, !.last = poll]
  ELSE [monitor EXCEPT !.state = "stopped", !.attempt = @ + 1, !.polls = @ + 1, !.last = poll,
                       !.log = "timeout"]

\* One round of the loop of checkDeploymentStatus with the poll it makes.
checkDeploymentStatus(monitor, poll) ==
  IF poll = "READY"
    THEN [monitor EXCEPT !.state = "stopped", !.polls = @ + 1, !.last = poll, !.log = "ready"]
  ELSE IF poll \in {"ERROR", "CANCELED"}
    THEN [monitor EXCEPT !.state = "stopped", !.polls = @ + 1, !.last = poll, !.log = "failed"]
  ELSE IF monitor.attempt + 1 < MonitorAttempts
    THEN [monitor EXCEPT !.attempt = @ + 1, !.polls = @ + 1, !.last = poll]
  ELSE [monitor EXCEPT !.state = "stopped", !.attempt = @ + 1, !.polls = @ + 1, !.last = poll,
                       !.log = "timeout"]

\* createDeployment starts the monitor when the deployment is accepted.
StartsMonitor(variant, remote) == variant = Background /\ remote = "accepted"

deployApp(vercelToken, appName, remote) ==
  LET inner == IF vercelToken THEN deployWithVercelAPI(appName, remote)
               ELSE deployWithCLI(appName, remote)
  IN  IF inner.threw THEN Returned(DeploymentFailure(appName, inner.error)) ELSE inner

\* ------------------------------------------------------------------- state
VARIABLES
  request,        \* the HTTP request of this run
  env,            \* the process environment
  pc,             \* position of the start() handler of the stream
  specifications, \* the parsed AppSpecification list
  maxConcurrent,  \* the window size (batchSize)
  i,              \* offset of the current window in specifications
  k,              \* cursor of the pending loop and of batch.map
  jobs,           \* per specification: the state of its map callback
  results,        \* the GenerationResults collected so far
  stream,         \* the events enqueued on the progress stream
  controller,     \* "open" or "closed"
  caught,         \* the value the outer catch block received
  startRejected,  \* an exception escaped start()
  disk,           \* the paths of the files on disk
  faults,         \* how many steps of the environment went wrong so far
  fileSet,        \* the FileSet handed to validateImports on its own
  verdict,        \* what validateImports did with fileSet
  deployer,       \* the VercelDeployer in use and the deployApp call made on its own
  monitors        \* the background monitors started so far, by job

vars ==
  << request, env, pc, specifications, maxConcurrent, i, k, jobs, results, stream,
     controller, caught, startRejected, disk, faults, fileSet, verdict, deployer, monitors >>

\* The deployer of a batch: the class in use; no deployApp call of its own.
BatchDeployer(variant) ==
  [variant |-> variant, token |-> "absent", appName |-> <<>>, pc |-> "batch", attempt |-> 0,
   polls |-> 0, raised |-> "none", accepted |-> FALSE,
   result |-> [threw |-> FALSE, pending |-> TRUE, value |-> "pending"]]

\* A promise that has not settled yet.
Pending == [threw |-> FALSE, pending |-> TRUE, value |-> "pending"]

NoError == [isError |-> FALSE, message |-> Message("none")]

FsError == ErrorOf(Message("EACCES: permission denied"))

ClosedError == ErrorOf(Message("Invalid state: Controller is already closed"))

outputDirectory == <<"public", "/", "generated_apps">>

enableDeployment == TRUE

IdleJob ==
  [pc |-> "idle", files |-> <<>>, deploymentStatus |-> "pending", deploymentUrl |-> Undefined,
   settled |-> Pending, callback |-> Pending, failedStep |-> "none", raised |-> NoError,
   deployCalled |-> FALSE]

\* ------------------------------------------------------------------ events
AppUpdate(name, status, progress, url) ==
  [type |-> "app_update", app_name |-> name, status |-> status, progress |-> progress,
   deployment_url |-> url]

ErrorEvent(msg) == [type |-> "error", message |-> msg]

FinalResults(summary) == [type |-> "final_results", results |-> summary]

\* controller.enqueue raises a TypeError on a closed controller.
CanEnqueue(ctrl) == ctrl = "open"

\* ------------------------------------------------------------- generateApp
AppDir(spec) == PathJoin(outputDirectory, Sanitize(spec.name, "_"))

\* Mutant: the catch block logs and rethrows.
generateAppRethrow(spec, error) == Threw(error)

\* The catch block of generateApp.
generateAppCatch(spec, error) ==
  Returned([success |-> FALSE,
            app_name |-> spec.name,
            error |-> IF error.isError THEN error.message ELSE Message("Unknown error"),
            generation_time |-> "iso"])

\* writeGeneratedFiles: the paths written when the first n entries succeed.
WrittenPaths(appDir, files, n) == {PathJoin(appDir, files[m].path) : m \in 1..n}

VercelConfigFiles ==
  { <<"vercel", ".", "json">>, <<"next", ".", "config", ".", "js">>,
    <<"tsconfig", ".", "json">>, <<"postcss", ".", "config", ".", "js">> }

\* getAllFiles: the files below dir, relative to it.
getAllFiles(files, dir) ==
  LET prefix == dir \o <<"/">>
  IN  {SubSeq(f, Len(prefix) + 1, Len(f)) : f \in {g \in files : StartsWith(g, prefix)}}

\* Mutant: a failed deployment is returned as a failed job.
generateAppReturnDeployOrFail(spec, job, files, listFault) ==
  IF listFault
    THEN [job EXCEPT !.pc = "returned", !.failedStep = "list", !.raised = FsError,
                     !.settled = generateAppCatch(spec, FsError)]
  ELSE IF job.deploymentStatus = "failed"
    THEN [job EXCEPT !.pc = "returned",
                     !.settled = generateAppCatch(spec, ErrorOf(Message("Deployment failed")))]
  ELSE [job EXCEPT !.pc = "returned",
                   !.settled = Returned([success |-> TRUE,
                                         app_name |-> spec.name,
                                         output_directory |-> AppDir(spec),
                                         files_created |-> getAllFiles(files, AppDir(spec)),
                                         generation_time |-> "iso",
                                         deployment_url |-> job.deploymentUrl,
                                         deployment_status |-> job.deploymentStatus])]

\* The tail of generateApp after the deployment decision: the final file
\* listing and the success result.
generateAppReturn(spec, job, files, listFault) ==
  IF listFault
    THEN [job EXCEPT !.pc = "returned", !.failedStep = "list", !.raised = FsError,
                     !.settled = generateAppCatch(spec, FsError)]
  ELSE [job EXCEPT !.pc = "returned",
                   !.settled = Returned([success |-> TRUE,
                                         app_name |-> spec.name,
                                         output_directory |-> AppDir(spec),
                                         files_created |-> getAllFiles(files, AppDir(spec)),
                                         generation_time |-> "iso",
                                         deployment_url |-> job.deploymentUrl,
                                         deployment_status |-> job.deploymentStatus])]

\* What a failing step of generateApp leaves: the result of the catch block.
generateAppFail(spec, job, step, error) ==
  [job EXCEPT !.pc = "returned", !.failedStep = step, !.raised = error,
              !.settled = generateAppCatch(spec, error)]

\* ------------------------------------------------- POST: start(controller)
Init ==
  /\ request \in Requests
  /\ env \in Envs
  /\ pc = "start"
  /\ specifications = <<>>
  /\ maxConcurrent = 0
  /\ i = 0
  /\ k = 0
  /\ jobs = <<>>
  /\ results = <<>>
  /\ stream = <<>>
  /\ controller = "open"
  /\ caught = NoError
  /\ startRejected = FALSE
  /\ disk = {}
  /\ faults = 0
  /\ fileSet = <<>>
  /\ verdict = Pending
  /\ deployer = BatchDeployer(Awaiting)
  /\ monitors = <<>>

\* What reading the request yields: the specifications, an early error
\* return with its message, or an exception.
ReadRequest(req) ==
  IF req.kind = "json"
    THEN IF ~req.valid THEN Threw(ErrorOf(Message("Unexpected token in JSON")))
         ELSE IF Len(req.ideas) = 0
           THEN Returned([early |-> TRUE, message |-> Message("No ideas provided"), specs |-> <<>>])
         ELSE Returned([early |-> FALSE, message |-> Message(""),
                        specs |-> IdeasToSpecifications(req.ideas)])
  ELSE IF req.csvFile.absent
    THEN Returned([early |-> TRUE, message |-> Message("No CSV file provided"), specs |-> <<>>])
  ELSE LET parsed == parseCSVContent(req.csvFile)
       IN  IF parsed.threw THEN parsed
           ELSE Returned([early |-> FALSE, message |-> Message(""), specs |-> parsed.value])

\* Mutant: the constructor does not look at the credential.
NewAppGeneratorUnchecked(environment) == Returned("generator")

\* new AppGenerator(...): raises when the generation-service credential is
\* missing.
NewAppGenerator(environment) ==
  IF ~environment.anthropicKey
    THEN Threw(ErrorOf(Message("ANTHROPIC_API_KEY or ANTHROPIC_TOKEN environment variable is required")))
  ELSE Returned("generator")

\* An early return of the try block: the error event, controller.close(),
\* return; the finally block runs next.
EarlyReturn(msg) ==
  /\ stream' = Append(stream, ErrorEvent(msg))
  /\ controller' = "closed"
  /\ pc' = "finally"
  /\ UNCHANGED <<specifications, maxConcurrent, jobs, caught>>

Raise(error) ==
  /\ caught' = error
  /\ pc' = "catch"

\* Lines 24-88: read the input, build the generator, compute the window size.
Setup ==
  /\ pc = "start"
  /\ LET read == ReadRequest(request)
         generator == NewAppGenerator(env)
     IN  IF read.threw
           THEN Raise(read.error)
                /\ UNCHANGED <<specifications, maxConcurrent, jobs, stream, controller>>
         ELSE IF read.value.early
           THEN EarlyReturn(read.value.message)
         ELSE IF Len(read.value.specs) = 0
           THEN EarlyReturn(Message("No valid app specifications found"))
         ELSE IF generator.threw
           THEN Raise(generator.error)
                /\ specifications' = read.value.specs
                /\ UNCHANGED <<maxConcurrent, jobs, stream, controller>>
         ELSE /\ specifications' = read.value.specs
              /\ maxConcurrent' = MaxConcurrentOf(env.cpuCount)
              /\ jobs' = [j \in 1..Len(read.value.specs) |-> IdleJob]
              /\ pc' = "pending"
              /\ UNCHANGED <<stream, controller, caught>>
  /\ UNCHANGED <<request, env, i, k, results, startRejected, disk, faults, fileSet, verdict, deployer, monitors>>

\* Mutant: the loop walks the specifications from the last to the first.
PendingEventReversed(specs, idx) ==
  AppUpdate(specs[Len(specs) - idx].name, "pending", 0, Undefined)

\* The event of the idx-th round (0-based) of the loop of lines 91-99.
PendingEventAt(specs, idx) == AppUpdate(specs[idx + 1].name, "pending", 0, Undefined)

\* Lines 90-99: one pending event per specification, in input order.
EmitPending ==
  /\ pc = "pending"
  /\ IF k >= Len(specifications)
       THEN /\ pc' = "launch"
            /\ k' = 0
            /\ UNCHANGED <<stream, caught>>
     ELSE IF CanEnqueue(controller)
       THEN /\ stream' = Append(stream, PendingEventAt(specifications, k))
            /\ k' = k + 1
            /\ UNCHANGED <<pc, caught>>
     ELSE Raise(ClosedError) /\ UNCHANGED <<stream, k>>
  /\ UNCHANGED <<request, env, specifications, maxConcurrent, i, jobs, results, controller,
                 startRejected, disk, faults, fileSet, verdict, deployer, monitors>>

Min(a, b) == IF a < b THEN a ELSE b

\* The environment's failures are counted, and at most MaxFaults of them
\* happen in one run: a file-system error, a failing or unusable answer of
\* the generation service, a rejected or unreachable deployment.
Cost(fault) == IF fault THEN 1 ELSE 0

Afford(cost) == faults + cost <= MaxFaults /\ faults' = faults + cost

\* Mutant: the slice is one element too long.
WindowEndWide == Min(i + maxConcurrent + 1, Len(specifications))

\* specifications.slice(i, i + batchSize) holds the jobs i+1 .. WindowEnd.
WindowEnd == Min(i + maxConcurrent, Len(specifications))

Window == (i + 1)..WindowEnd

\* Lines 109-121 and 429-444, run synchronously by batch.map for the next
\* specification of the window: the running event, then generateApp up to
\* its first await (the directory is created, the service call is pending).
StartJob ==
  /\ pc = "launch"
  /\ k < WindowEnd - i
  /\ LET j == i + k + 1
         spec == specifications[j]
     IN  IF ~CanEnqueue(controller)
           THEN /\ jobs' = [jobs EXCEPT ![j].pc = "done", ![j].callback = Threw(ClosedError)]
                /\ UNCHANGED <<stream, faults>>
         ELSE /\ stream' = Append(stream, AppUpdate(spec.name, "running", 25, Undefined))
              /\ \E mkdirFault \in BOOLEAN :
                   /\ Afford(Cost(mkdirFault))
                   /\ jobs' = [jobs EXCEPT ![j] =
                                 IF mkdirFault THEN generateAppFail(spec, @, "mkdir", FsError)
                                 ELSE [@ EXCEPT !.pc = "generating"]]
  /\ k' = k + 1
  /\ pc' = IF k + 1 >= WindowEnd - i THEN "await" ELSE "launch"
  /\ UNCHANGED <<request, env, specifications, maxConcurrent, i, results, controller, caught,
                 startRejected, disk, fileSet, verdict, deployer, monitors>>

\* The continuations of the jobs run between the synchronous sections of the
\* handler.
JobsMayRun == pc \in {"await", "done"}

JobFrame ==
  UNCHANGED <<request, env, pc, specifications, maxConcurrent, i, k, results, controller,
              caught, startRejected, fileSet, verdict, deployer>>

DeploymentWorked(remote) == remote \in {"accepted", "cli_url"}

\* Lines 444-447: the generation service answers; the response is decoded
\* and written to disk (n entries are written before a write fails).
ServiceReturn(j) ==
  /\ JobsMayRun
  /\ jobs[j].pc = "generating"
  /\ \E outcome \in ServiceOutcomes :
       LET spec == specifications[j]
       IN  IF outcome.threw
             THEN /\ Afford(1)
                  /\ jobs' = [jobs EXCEPT ![j] = generateAppFail(spec, @, "service", outcome.error)]
                  /\ UNCHANGED disk
           ELSE LET files == DecodeFiles(outcome.value)
                IN  \E n \in 0..Len(files) :
                      /\ Afford(Cost(n < Len(files)) + Cost(outcome.value # ResponseOk))
                      /\ disk' = disk \cup WrittenPaths(AppDir(spec), files, n)
                      /\ jobs' = [jobs EXCEPT ![j] =
                                    IF n < Len(files)
                                      THEN generateAppFail(spec, [@ EXCEPT !.files = files],
                                                           "write", FsError)
                                    ELSE [@ EXCEPT !.pc = "written", !.files = files]]
  /\ UNCHANGED <<stream, monitors>>
  /\ JobFrame

\* Mutant: a job that fails validation removes what it wrote.
ValidateCleansUp(j) ==
  /\ JobsMayRun
  /\ jobs[j].pc = "written"
  /\ LET spec == specifications[j]
         checked == validateImports(jobs[j].files)
     IN  /\ jobs' = [jobs EXCEPT ![j] =
                       IF checked.threw THEN generateAppFail(spec, @, "validate", checked.error)
                       ELSE [@ EXCEPT !.pc = "validated"]]
         /\ disk' = IF checked.threw
                      THEN disk \ WrittenPaths(AppDir(spec), jobs[j].files, Len(jobs[j].files))
                    ELSE disk
  /\ UNCHANGED <<stream, faults, monitors>>
  /\ JobFrame

\* Line 450: validateImports.
Validate(j) ==
  /\ JobsMayRun
  /\ jobs[j].pc = "written"
  /\ LET spec == specifications[j]
         checked == validateImports(jobs[j].files)
     IN  jobs' = [jobs EXCEPT ![j] =
                    IF checked.threw THEN generateAppFail(spec, @, "validate", checked.error)
                    ELSE [@ EXCEPT !.pc = "validated"]]
  /\ UNCHANGED <<stream, disk, faults, monitors>>
  /\ JobFrame

\* Lines 452-455 and, for a specification that is not deployed, 457-518.
Configure(j) ==
  /\ JobsMayRun
  /\ jobs[j].pc = "validated"
  /\ LET spec == specifications[j]
     IN  IF IsReact(spec.tech_stack)
           THEN \E fault \in BOOLEAN :
                  /\ Afford(Cost(fault))
                  /\ IF fault
                       THEN /\ jobs' = [jobs EXCEPT ![j] = generateAppFail(spec, @, "config", FsError)]
                            /\ UNCHANGED disk
                     ELSE /\ jobs' = [jobs EXCEPT ![j].pc = "configured"]
                          /\ disk' = disk \cup {PathJoin(AppDir(spec), f) : f \in VercelConfigFiles}
         ELSE /\ \E listFault \in BOOLEAN :
                   /\ Afford(Cost(listFault))
                   /\ jobs' = [jobs EXCEPT ![j] = generateAppReturn(spec, @, disk, listFault)]
              /\ UNCHANGED disk
  /\ UNCHANGED <<stream, monitors>>
  /\ JobFrame

\* Lines 463-475: the deployment decision; deployApp is called and awaited.
DeployStart(j) ==
  /\ JobsMayRun
  /\ jobs[j].pc = "configured"
  /\ LET spec == specifications[j]
     IN  IF enableDeployment /\ IsReact(spec.tech_stack)
           THEN /\ jobs' = [jobs EXCEPT ![j].pc = "deploying", ![j].deploymentStatus = "deploying",
                                        ![j].deployCalled = TRUE]
                /\ UNCHANGED faults
         ELSE \E listFault \in BOOLEAN :
                /\ Afford(Cost(listFault))
                /\ jobs' = [jobs EXCEPT ![j] = generateAppReturn(spec, @, disk, listFault)]
  /\ UNCHANGED <<stream, disk, monitors>>
  /\ JobFrame

\* Mutant: a successful deployment sets the status and drops the URL.
AfterDeployDropsUrl(job, deployed) ==
  IF deployed.threw
    THEN [job EXCEPT !.deploymentStatus = "failed", !.failedStep = "deploy"]
  ELSE IF deployed.value.success /\ deployed.value.url # Undefined
    THEN [job EXCEPT !.deploymentStatus = "deployed"]
  ELSE [job EXCEPT !.deploymentStatus = "failed", !.failedStep = "deploy"]

\* Mutant: a successful deployment records the URL and leaves the status.
AfterDeployKeepsStatus(job, deployed) ==
  IF deployed.threw
    THEN [job EXCEPT !.deploymentStatus = "failed", !.failedStep = "deploy"]
  ELSE IF deployed.value.success /\ deployed.value.url # Undefined
    THEN [job EXCEPT !.deploymentUrl = deployed.value.url]
  ELSE [job EXCEPT !.deploymentStatus = "failed", !.failedStep = "deploy"]

\* Lines 477-498: what generateApp makes of the settled deployApp call.
AfterDeploy(job, deployed) ==
  IF deployed.threw
    THEN [job EXCEPT !.deploymentStatus = "failed", !.failedStep = "deploy"]
  ELSE IF deployed.value.success /\ deployed.value.url # Undefined
    THEN [job EXCEPT !.deploymentUrl = deployed.value.url, !.deploymentStatus = "deployed"]
  ELSE [job EXCEPT !.deploymentStatus = "failed", !.failedStep = "deploy"]

\* Lines 475-518: deployApp settles, then the file listing and the result.
DeployReturn(j) ==
  /\ JobsMayRun
  /\ jobs[j].pc = "deploying"
  /\ \E remote \in RemoteOutcomes(deployer.variant, env.vercelToken), listFault \in BOOLEAN :
       LET spec == specifications[j]
           deployed == deployApp(env.vercelToken, spec.name, remote)
       IN  /\ Afford(Cost(~DeploymentWorked(remote)) + Cost(listFault))
           /\ jobs' = [jobs EXCEPT ![j] =
                         generateAppReturn(spec, AfterDeploy(@, deployed), disk, listFault)]
           /\ monitors' = IF StartsMonitor(deployer.variant, remote)
                             THEN monitors @@ (j :> NewMonitor)
                           ELSE monitors
  /\ UNCHANGED <<stream, disk>>
  /\ JobFrame

\* Mutant: a failed deployment is reported as an error.
FinalStatusDeployOrError(result) ==
  IF result.success
    THEN IF result.deployment_status = "deployed" THEN "deployed"
         ELSE IF result.deployment_status = "failed" THEN "error"
         ELSE "completed"
  ELSE "error"

\* Mutant: the terminal event carries the deployment_status as it is.
FinalStatusOfDeployment(result) ==
  IF result.success THEN result.deployment_status ELSE "error"

\* Lines 123-133.
FinalStatus(result) ==
  IF result.success
    THEN IF result.deployment_status = "deployed" THEN "deployed"
         ELSE IF result.deployment_status = "deploying" THEN "deploying"
         ELSE "completed"
  ELSE "error"

\* Lines 146-161: the catch block of the map callback.
CallbackCatch(spec, error, strm, ctrl) ==
  IF CanEnqueue(ctrl)
    THEN [stream |-> Append(strm, AppUpdate(spec.name, "error", 100, Undefined)),
          callback |-> Returned([success |-> FALSE,
                                 app_name |-> spec.name,
                                 error |-> IF error.isError THEN error.message
                                           ELSE Message("Unknown error"),
                                 generation_time |-> "iso"])]
  ELSE [stream |-> strm, callback |-> Threw(ClosedError)]

\* Mutant: a failed result is thrown out of the callback.
CallbackResumeThrowsFailure(spec, settled, strm, ctrl) ==
  IF settled.threw THEN [stream |-> strm, callback |-> Threw(settled.error)]
  ELSE IF ~settled.value.success
    THEN [stream |-> strm, callback |-> Threw(ErrorOf(settled.value.error))]
  ELSE [stream |-> Append(strm, AppUpdate(spec.name, FinalStatus(settled.value), 100,
                                          settled.value.deployment_url)),
        callback |-> Returned(settled.value)]

\* Lines 121-161: the map callback resumes with the settled generateApp.
CallbackResume(spec, settled, strm, ctrl) ==
  IF settled.threw THEN CallbackCatch(spec, settled.error, strm, ctrl)
  ELSE IF CanEnqueue(ctrl)
    THEN [stream |-> Append(strm, AppUpdate(spec.name, FinalStatus(settled.value), 100,
                                           IF settled.value.success
                                             THEN settled.value.deployment_url
                                           ELSE Undefined)),
          callback |-> Returned(settled.value)]
  ELSE CallbackCatch(spec, ClosedError, strm, ctrl)

JobFinish(j) ==
  /\ JobsMayRun
  /\ jobs[j].pc = "returned"
  /\ LET resumed == CallbackResume(specifications[j], jobs[j].settled, stream, controller)
     IN  /\ stream' = resumed.stream
         /\ jobs' = [jobs EXCEPT ![j].pc = "done", ![j].callback = resumed.callback]
  /\ UNCHANGED <<disk, faults, monitors>>
  /\ JobFrame

\* Promise.all(batchPromises) fulfils when every callback of the window has.
AllFulfilled == \A j \in Window : jobs[j].pc = "done"

\* Mutant: only the successful results of the window are kept.
BatchResultsSuccessfulOnly ==
  SelectSeq([m \in 1..(WindowEnd - i) |-> jobs[i + m].callback.value], LAMBDA r : r.success)

\* batchResults: the values of the callbacks of the window, in input order.
BatchResults == [m \in 1..(WindowEnd - i) |-> jobs[i + m].callback.value]

\* Lines 165-167: Promise.all settles: it rejects with the first rejected
\* callback, or fulfils with the results of the window in input order.
WindowSettle ==
  /\ pc = "await"
  /\ LET rejected == {j \in Window : jobs[j].pc = "done" /\ jobs[j].callback.threw}
     IN  IF rejected # {}
           THEN /\ \E j \in rejected : Raise(jobs[j].callback.error)
                /\ UNCHANGED <<results, i, k>>
         ELSE /\ AllFulfilled
              /\ results' = results \o BatchResults
              /\ i' = i + maxConcurrent
              /\ k' = 0
              /\ pc' = IF i + maxConcurrent < Len(specifications) THEN "launch" ELSE "summary"
              /\ UNCHANGED caught
  /\ UNCHANGED <<request, env, specifications, maxConcurrent, jobs, stream, controller,
                 startRejected, disk, faults, fileSet, verdict, deployer, monitors>>

SelectResults(rs, success) == SelectSeq(rs, LAMBDA r : r.success = success)

\* Lines 172-190.
Summary(specs, rs, workers, cpus) ==
  [total_apps |-> Len(specs),
   successful_apps |-> Len(SelectResults(rs, TRUE)),
   failed_apps |-> Len(SelectResults(rs, FALSE)),
   concurrent_workers |-> workers,
   cpu_cores |-> cpus,
   output_directory |-> outputDirectory,
   results |-> [successful |-> SelectResults(rs, TRUE), failed |-> SelectResults(rs, FALSE)]]

\* Lines 169-197: the summary and the final_results event.
EmitFinal ==
  /\ pc = "summary"
  /\ IF CanEnqueue(controller)
       THEN /\ stream' = Append(stream, FinalResults(Summary(specifications, results,
                                                             maxConcurrent, env.cpuCount)))
            /\ pc' = "finally"
            /\ UNCHANGED caught
     ELSE Raise(ClosedError) /\ UNCHANGED stream
  /\ UNCHANGED <<request, env, specifications, maxConcurrent, i, k, jobs, results, controller,
                 startRejected, disk, faults, fileSet, verdict, deployer, monitors>>

\* Lines 199-204: the outer catch block.
Catch ==
  /\ pc = "catch"
  /\ IF CanEnqueue(controller)
       THEN /\ stream' = Append(stream, ErrorEvent(IF caught.isError THEN caught.message
                                                   ELSE Message("Unknown error occurred")))
            /\ UNCHANGED startRejected
     ELSE /\ startRejected' = TRUE
          /\ UNCHANGED stream
  /\ pc' = "finally"
  /\ UNCHANGED <<request, env, specifications, maxConcurrent, i, k, jobs, results, controller,
                 caught, disk, faults, fileSet, verdict, deployer, monitors>>

\* Mutant: the finally block does not close the controller.
FinallyWithoutClose ==
  /\ pc = "finally"
  /\ pc' = "done"
  /\ UNCHANGED <<request, env, specifications, maxConcurrent, i, k, jobs, results, stream,
                 controller, caught, startRejected, disk, faults, fileSet, verdict, deployer, monitors>>

\* Lines 205-207: controller.close() raises a TypeError when the controller
\* is closed already.
Finally ==
  /\ pc = "finally"
  /\ IF controller = "open"
       THEN controller' = "closed" /\ UNCHANGED startRejected
     ELSE startRejected' = TRUE /\ UNCHANGED controller
  /\ pc' = "done"
  /\ UNCHANGED <<request, env, specifications, maxConcurrent, i, k, jobs, results, stream,
                 caught, disk, faults, fileSet, verdict, deployer, monitors>>

JobStep ==
  \E j \in 1..Len(jobs) :
    \/ ServiceReturn(j)
    \/ Validate(j)
    \/ Configure(j)
    \/ DeployStart(j)
    \/ DeployReturn(j)
    \/ JobFinish(j)

Next ==
  \/ Setup
  \/ EmitPending
  \/ StartJob
  \/ JobStep
  \/ WindowSettle
  \/ EmitFinal
  \/ Catch
  \/ Finally

Spec == Init /\ [][Next]_vars

\* ------------------------------------------- validateImports on its own
\* The FileSets handed to validateImports: one importing file with at most
\* MaxImports statements, and any subset of the other files.
ImporterPaths == { <<"page", ".", "tsx">>, PagePath }

ImportPool ==
  { <<"@", "/", "components", "/", "Button">>,
    <<".", "/", "Button">>,
    <<".", ".", "/", "components", "/", "Button">>,
    <<".", "/", "components", "/", "Button">>,
    <<"@", "/", "lib", "/", "utils">>,
    <<"@", "/", ".", "/", "lib", "/", "utils">>,
    <<".", "/", "data", ".", "json">>,
    <<".", "/", "globals", ".", "css">>,
    <<"react">>,
    <<"@", "scope", "/", "pkg">> }

StatementPool ==
  {Stmt("import_from", p) : p \in ImportPool}
  \cup {Stmt("import_side", <<".", "/", "globals", ".", "css">>),
        Stmt("import_multiline", <<".", "/", "Button">>),
        Stmt("export_from", <<".", "/", "Button">>),
        Stmt("other", <<>>)}

OtherFiles ==
  << File(ButtonPath, <<>>),
     File(<<"components", "/", "Button", "/", "index", ".", "ts">>, <<>>),
     File(<<"app", "/", "Button", ".", "ts">>, <<>>),
     File(<<"lib", "/", "utils", ".", "ts">>, <<>>),
     File(<<"app", "/", "data", ".", "json">>, <<>>),
     File(<<"react", ".", "ts">>, <<>>),
     File(CssPath, <<>>) >>

Contents == UNION {[1..n -> StatementPool] : n \in 0..MaxImports}

FileSets ==
  { <<File(path, content)>> \o SelectSeq(OtherFiles, LAMBDA f : f.path \in present) :
      path \in ImporterPaths, content \in Contents,
      present \in SUBSET {OtherFiles[m].path : m \in 1..Len(OtherFiles)} }

InitValidate ==
  /\ fileSet \in FileSets
  /\ verdict = Pending
  /\ request = [kind |-> "json", valid |-> FALSE, ideas |-> <<>>]
  /\ env = [anthropicKey |-> TRUE, vercelToken |-> FALSE, cpuCount |-> 1]
  /\ pc = "validate"
  /\ specifications = <<>>
  /\ maxConcurrent = 0
  /\ i = 0
  /\ k = 0
  /\ jobs = <<>>
  /\ results = <<>>
  /\ stream = <<>>
  /\ controller = "open"
  /\ caught = NoError
  /\ startRejected = FALSE
  /\ disk = {}
  /\ faults = 0
  /\ deployer = BatchDeployer(Awaiting)
  /\ monitors = <<>>

RunValidate ==
  /\ pc = "validate"
  /\ verdict = Pending
  /\ verdict' = validateImports(fileSet)
  /\ UNCHANGED <<request, env, pc, specifications, maxConcurrent, i, k, jobs, results, stream,
                 controller, caught, startRejected, disk, faults, fileSet, deployer, monitors>>

NextValidate == RunValidate

SpecValidate == InitValidate /\ [][NextValidate]_vars

\* ------------------------------------------------ the consumer disconnects
\* The consumer of the response cancels the stream while the handler awaits
\* a window: from then on controller.enqueue and controller.close raise
\* 'Invalid state: Controller is already closed'.
ConsumerCancel ==
  /\ pc = "await"
  /\ controller = "open"
  /\ controller' = "cancelled"
  /\ UNCHANGED <<request, env, pc, specifications, maxConcurrent, i, k, jobs, results, stream,
                 caught, startRejected, disk, faults, fileSet, verdict, deployer, monitors>>

NextDisconnect == Next \/ ConsumerCancel

\* Job j waits for a call to settle: the generation service, the config
\* overlay's file writes or deployApp.
AwaitsCall(j) ==
  /\ j <= Len(jobs)
  /\ JobsMayRun
  /\ jobs[j].pc \in {"generating", "validated", "deploying"}

\* Every call a job awaits returns or raises.
CallsReturn == \A j \in 1..MaxSpecs : []<>~AwaitsCall(j)

\* Every continuation that can run does run: the event loop resumes the
\* handler and the callbacks of the jobs, and every awaited call settles.
Fairness ==
  /\ WF_vars(Setup)
  /\ WF_vars(EmitPending)
  /\ WF_vars(StartJob)
  /\ WF_vars(WindowSettle)
  /\ WF_vars(EmitFinal)
  /\ WF_vars(Catch)
  /\ WF_vars(Finally)
  /\ WF_vars(\E j \in 1..Len(jobs) : Validate(j) \/ DeployStart(j) \/ JobFinish(j))
  /\ CallsReturn

SpecDisconnect == Init /\ [][NextDisconnect]_vars /\ Fairness

\* The batch with a consumer that stays connected, under the same fairness.
SpecLive == Spec /\ Fairness

\* ------------------------------------------ generateWithClaude's decoding
\* The decoding loop on its own: fileSet holds object.files as the service
\* returned it, verdict what generateWithClaude returns.
MaxEntries == 2

ContentPool == { <<>>, << Stmt("import_from", <<"react">>) >> }

Base64Texts ==
  {Base64(content) : content \in ContentPool}
  \cup { <<Corrupt>>, Base64(<< Stmt("import_from", <<"react">>) >>) \o <<Corrupt>> }

ValuePool ==
  {RawString(<<>>, content).value : content \in ContentPool}
  \cup {RawEncoded(<<>>, text).value : text \in Base64Texts}
  \cup {RawB64(<<>>, text).value : text \in Base64Texts}

DecodePaths == {PagePath, ButtonPath, CssPath}

\* The keys of an object are distinct.
RawResponses ==
  UNION { {raw \in [1..n -> [path : DecodePaths, value : ValuePool]] :
             \A a, b \in 1..n : raw[a].path = raw[b].path => a = b} : n \in 1..MaxEntries }

InitDecode ==
  /\ fileSet \in RawResponses
  /\ verdict = Pending
  /\ pc = "decode"
  /\ request = [kind |-> "json", valid |-> FALSE, ideas |-> <<>>]
  /\ env = [anthropicKey |-> TRUE, vercelToken |-> FALSE, cpuCount |-> 1]
  /\ specifications = <<>>
  /\ maxConcurrent = 0
  /\ i = 0
  /\ k = 0
  /\ jobs = <<>>
  /\ results = <<>>
  /\ stream = <<>>
  /\ controller = "open"
  /\ caught = NoError
  /\ startRejected = FALSE
  /\ disk = {}
  /\ faults = 0
  /\ deployer = BatchDeployer(Awaiting)
  /\ monitors = <<>>

\* Lines 351-408.
RunDecode ==
  /\ pc = "decode"
  /\ verdict.pending
  /\ verdict' = Returned(DecodeFiles(fileSet))
  /\ UNCHANGED <<request, env, pc, specifications, maxConcurrent, i, k, jobs, results, stream,
                 controller, caught, startRejected, disk, faults, fileSet, deployer, monitors>>

NextDecode == RunDecode

SpecDecode == InitDecode /\ [][NextDecode]_vars

\* ------------------------------------------------- deployApp on its own
\* One call of deployApp(appDir, appName) on a VercelDeployer built with a
\* valid token, a token the remote API refuses, or no token ('').
Tokens == {"valid", "invalid", "absent"}

AppNames == { <<"A", "b">>, <<"a", " ", "1">> }

InitDeploy ==
  /\ deployer \in { [BatchDeployer(variant) EXCEPT !.token = token, !.appName = appName,
                                                     !.pc = "start"] :
                       variant \in {Awaiting, Background}, token \in Tokens,
                       appName \in AppNames }
  /\ monitors = <<>>
  /\ fileSet = <<>>
  /\ verdict = Pending
  /\ request = [kind |-> "json", valid |-> FALSE, ideas |-> <<>>]
  /\ env = [anthropicKey |-> TRUE, vercelToken |-> FALSE, cpuCount |-> 1]
  /\ pc = "deploy"
  /\ specifications = <<>>
  /\ maxConcurrent = 0
  /\ i = 0
  /\ k = 0
  /\ jobs = <<>>
  /\ results = <<>>
  /\ stream = <<>>
  /\ controller = "open"
  /\ caught = NoError
  /\ startRejected = FALSE
  /\ disk = {}
  /\ faults = 0

DeployFrame ==
  UNCHANGED <<request, env, pc, specifications, maxConcurrent, i, k, jobs, results, stream,
              controller, caught, startRejected, disk, faults, fileSet, verdict>>

\* deployApp returns what the strategy returned, or the failure result of
\* its catch block.
DeployAppReturns(remote, step) ==
  deployer' = [deployer EXCEPT !.pc = "returned",
                               !.raised = step,
                               !.result = deployApp(deployer.token # "absent", deployer.appName,
                                                    remote)]

\* deployApp: the strategy is chosen by the token.
DeployAppStart ==
  /\ pc = "deploy"
  /\ deployer.pc = "start"
  /\ deployer' = [deployer EXCEPT !.pc = IF deployer.token # "absent" THEN "project" ELSE "cli"]
  /\ UNCHANGED monitors
  /\ DeployFrame

\* deployWithCLI: the vercel command ends.
DeployWithCLI ==
  /\ pc = "deploy"
  /\ deployer.pc = "cli"
  /\ \E remote \in RemoteOutcomes(deployer.variant, FALSE) :
       DeployAppReturns(remote, IF remote = "cli_url" THEN "none" ELSE "cli")
  /\ UNCHANGED monitors
  /\ DeployFrame

\* createOrGetProject: the project is found or created, or the call raises
\* (always, with a token the API refuses).
CreateOrGetProject ==
  /\ pc = "deploy"
  /\ deployer.pc = "project"
  /\ \E ok \in BOOLEAN :
       /\ deployer.token = "invalid" => ~ok
       /\ IF ok THEN deployer' = [deployer EXCEPT !.pc = "deployment"]
          ELSE DeployAppReturns("project_error", "project")
  /\ UNCHANGED monitors
  /\ DeployFrame

\* createDeployment: the deployment request is accepted, rejected, or the
\* fetch rejects.  On acceptance the one class starts the monitor and
\* returns the URL, the other awaits waitForDeployment.
CreateDeployment ==
  /\ pc = "deploy"
  /\ deployer.pc = "deployment"
  /\ \E answer \in {"accepted", "rejected", "network_error"} :
       IF answer # "accepted"
         THEN DeployAppReturns("deployment_rejected", "deployment") /\ UNCHANGED monitors
       ELSE IF deployer.variant = Background
         THEN /\ deployer' = [deployer EXCEPT
                                !.pc = "returned", !.accepted = TRUE,
                                !.result = deployApp(TRUE, deployer.appName, "accepted")]
              /\ monitors' = IF StartsMonitor(deployer.variant, "accepted")
                                THEN monitors @@ (1 :> NewMonitor)
                              ELSE monitors
       ELSE /\ deployer' = [deployer EXCEPT !.pc = "waiting", !.accepted = TRUE]
            /\ UNCHANGED monitors
  /\ DeployFrame

\* One round of waitForDeployment; the call returns when the wait is over.
WaitForDeployment ==
  /\ pc = "deploy"
  /\ deployer.pc = "waiting"
  /\ \E poll \in PollOutcomes :
       LET round == waitForDeployment(deployer.attempt, poll)
           waited == [deployer EXCEPT !.attempt = round.attempt, !.polls = @ + 1]
       IN  deployer' =
             IF round.state = "waiting" THEN waited
             ELSE IF round.state = "ready"
               THEN [waited EXCEPT !.pc = "returned",
                                   !.result = deployApp(TRUE, deployer.appName, "accepted")]
             ELSE [waited EXCEPT !.pc = "returned", !.raised = "wait",
                                 !.result = deployApp(TRUE, deployer.appName,
                                                      "deployment_timeout")]
  /\ UNCHANGED monitors
  /\ DeployFrame

\* A poll is answered while the handler and the jobs are suspended.
MonitorsMayRun == pc = "deploy" \/ JobsMayRun

\* Mutant: the monitor reports what it finds on the progress stream.
MonitorPollReports(j) ==
  /\ j \in DOMAIN monitors
  /\ monitors[j].state = "polling"
  /\ MonitorsMayRun
  /\ deployer.pc = "batch" => deployer.polls < MaxBatchPolls
  /\ \E poll \in PollOutcomes :
       /\ monitors' = [monitors EXCEPT ![j] = checkDeploymentStatus(@, poll)]
       /\ stream' = Append(stream, AppUpdate(deployer.appName, poll, 100, Undefined))
  /\ deployer' = IF deployer.pc = "batch" THEN [deployer EXCEPT !.polls = @ + 1] ELSE deployer
  /\ UNCHANGED <<request, env, pc, specifications, maxConcurrent, i, k, jobs, results,
                 controller, caught, startRejected, disk, faults, fileSet, verdict>>

\* One round of checkDeploymentStatus of the monitor of job j.  In a batch
\* at most MaxBatchPolls rounds are followed.
MonitorPoll(j) ==
  /\ j \in DOMAIN monitors
  /\ monitors[j].state = "polling"
  /\ MonitorsMayRun
  /\ deployer.pc = "batch" => deployer.polls < MaxBatchPolls
  /\ \E poll \in PollOutcomes :
       monitors' = [monitors EXCEPT ![j] = checkDeploymentStatus(@, poll)]
  /\ deployer' = IF deployer.pc = "batch" THEN [deployer EXCEPT !.polls = @ + 1] ELSE deployer
  /\ DeployFrame

MonitorStep == \E j \in DOMAIN monitors : MonitorPoll(j)

NextDeploy ==
  \/ DeployAppStart
  \/ DeployWithCLI
  \/ CreateOrGetProject
  \/ CreateDeployment
  \/ WaitForDeployment
  \/ MonitorStep

SpecDeploy == InitDeploy /\ [][NextDeploy]_vars

\* ------------------------------- the batch with the background monitors
\* The batches followed with their monitors: JSON requests of at most
\* MaxMonitored ideas, run with a deployment token on one CPU, so that every
\* job has a window of its own and the monitor of a job runs beside the
\* windows after it.
BackgroundRequests == {r \in Requests : r.kind = "json" /\ Len(r.ideas) <= MaxMonitored}

InitBackground ==
  /\ request \in BackgroundRequests
  /\ env \in {e \in Envs : e.vercelToken /\ e.cpuCount = 1}
  /\ pc = "start"
  /\ specifications = <<>>
  /\ maxConcurrent = 0
  /\ i = 0
  /\ k = 0
  /\ jobs = <<>>
  /\ results = <<>>
  /\ stream = <<>>
  /\ controller = "open"
  /\ caught = NoError
  /\ startRejected = FALSE
  /\ disk = {}
  /\ faults = 0
  /\ fileSet = <<>>
  /\ verdict = Pending
  /\ deployer = BatchDeployer(Background)
  /\ monitors = <<>>

NextBackground == Next \/ MonitorStep

SpecBackground == InitBackground /\ [][NextBackground]_vars

\* ------------------------------------------ writeGeneratedFiles on its own
\* One call of writeGeneratedFiles(appDir, files) for the FileSet the
\* generation service returned, whose keys are used as they come.
MaxWritten == 2

WritePathPool ==
  { PagePath,
    <<"lib", "/", ".", "/", "utils", ".", "ts">>,
    <<".", ".", "/", "x", ".", "ts">>,
    <<"lib", "/", ".", ".", "/", ".", ".", "/", "x", ".", "ts">>,
    <<".", ".", "/", ".", ".", "/", "x", ".", "ts">>,
    <<"/", "etc", "/", "x", ".", "ts">> }

WriteFileSets ==
  UNION {[1..n -> {File(path, <<>>) : path \in WritePathPool}] : n \in 1..MaxWritten}

InitWrite ==
  /\ fileSet \in WriteFileSets
  /\ specifications \in {<<AppSpecification(name, PythonReact)>> : name \in AppNames}
  /\ verdict = Pending
  /\ pc = "write"
  /\ k = 0
  /\ disk = {}
  /\ faults = 0
  /\ request = [kind |-> "json", valid |-> FALSE, ideas |-> <<>>]
  /\ env = [anthropicKey |-> TRUE, vercelToken |-> FALSE, cpuCount |-> 1]
  /\ maxConcurrent = 0
  /\ i = 0
  /\ jobs = <<>>
  /\ results = <<>>
  /\ stream = <<>>
  /\ controller = "open"
  /\ caught = NoError
  /\ startRejected = FALSE
  /\ deployer = BatchDeployer(Awaiting)
  /\ monitors = <<>>

WriteFrame ==
  UNCHANGED <<request, env, specifications, maxConcurrent, i, jobs, results, stream,
              controller, caught, startRejected, fileSet, deployer, monitors>>

\* Lines 803-815: one round of the loop; mkdirSync or writeFileSync may raise.
WriteFile ==
  /\ pc = "write"
  /\ k < Len(fileSet)
  /\ \E fault \in BOOLEAN :
       /\ Afford(Cost(fault))
       /\ IF fault
            THEN /\ pc' = "returned"
                 /\ verdict' = Threw(FsError)
                 /\ UNCHANGED <<k, disk>>
          ELSE /\ disk' = disk \cup WrittenPaths(AppDir(specifications[1]), fileSet, k + 1)
               /\ k' = k + 1
               /\ UNCHANGED <<pc, verdict>>
  /\ WriteFrame

\* Line 818: the relative paths as they were given.
WriteReturn ==
  /\ pc = "write"
  /\ k = Len(fileSet)
  /\ pc' = "returned"
  /\ verdict' = Returned([m \in 1..Len(fileSet) |-> fileSet[m].path])
  /\ UNCHANGED <<k, disk, faults>>
  /\ WriteFrame

NextWrite == WriteFile \/ WriteReturn

SpecWrite == InitWrite /\ [][NextWrite]_vars

\* ================================================================== claims
IsPending(e) == e.type = "app_update" /\ e.status = "pending"

IsRunning(e) == e.type = "app_update" /\ e.status = "running"

IsItemTerminal(e) == e.type = "app_update" /\ e.progress = 100

IsItemUpdate(e) == e.type = "app_update"

IsFinal(e) == e.type = "final_results"

IsError(e) == e.type = "error"

IsTerminal(e) == IsFinal(e) \/ IsError(e)

PendingEvents == {p \in 1..Len(stream) : IsPending(stream[p])}

RunningEvents == {p \in 1..Len(stream) : IsRunning(stream[p])}

ItemTerminalEvents == {p \in 1..Len(stream) : IsItemTerminal(stream[p])}

ItemUpdateEvents == {p \in 1..Len(stream) : IsItemUpdate(stream[p])}

FinalEvents == {p \in 1..Len(stream) : IsFinal(stream[p])}

ErrorEvents == {p \in 1..Len(stream) : IsError(stream[p])}

TerminalEvents == {p \in 1..Len(stream) : IsTerminal(stream[p])}

NumSpecs == Len(specifications)

\* C1: once the batch runs, the stream starts with exactly one pending event
\* (progress 0) per specification, in input order, and no running event
\* comes before the last of them; a pending event never appears elsewhere.
C1_PendingBeforeRunning ==
  LET pend == PendingEvents
  IN  /\ \A p \in pend : /\ p <= NumSpecs
                         /\ stream[p] = AppUpdate(specifications[p].name, "pending", 0, Undefined)
                         /\ \A q \in 1..p : q \in pend
      /\ (RunningEvents # {} \/ pc \in {"launch", "await", "summary"})
           => pend = 1..NumSpecs

C1_Witness ==
  /\ NumSpecs = 3
  /\ Cardinality(PendingEvents) = 3
  /\ Cardinality(RunningEvents) = 1

\* C2: the stream never holds more than one terminal event (final_results
\* or error), a terminal event is the last event of the stream, and when
\* the handler is done the controller is closed and the stream holds
\* exactly one terminal event.
C2_OneTerminalEvent ==
  LET terms == TerminalEvents
  IN  /\ Cardinality(terms) <= 1
      /\ \A p \in terms : p = Len(stream)
      /\ controller = "closed" => Cardinality(terms) = 1
      /\ pc = "done" => controller = "closed" /\ Cardinality(terms) = 1

C2_Witness ==
  /\ pc = "done"
  /\ NumSpecs >= 2
  /\ IsFinal(stream[Len(stream)])
  /\ \E j \in 1..Len(jobs) : jobs[j].failedStep = "service"

WindowOf(j) == (j - 1) \div maxConcurrent

\* C3: a job of a later window has not started (no running event, no
\* generateApp call) unless every job of every earlier window has emitted
\* its terminal update and handed its result to the scheduler; on the
\* stream, the running event number m*limit+1 comes after m*limit terminal
\* item updates.
C3_WindowBarrier ==
  LET running == Cardinality(RunningEvents)
      terminal == Cardinality(ItemTerminalEvents)
  IN  /\ \A a, b \in 1..Len(jobs) :
           (WindowOf(a) < WindowOf(b) /\ jobs[b].pc # "idle")
             => /\ jobs[a].pc = "done"
                /\ ~jobs[a].callback.pending
                /\ a <= Len(results)
      /\ running >= 1 => terminal >= maxConcurrent * ((running - 1) \div maxConcurrent)

C3_Witness ==
  /\ NumSpecs = 3
  /\ maxConcurrent = 2
  /\ jobs[3].pc = "generating"
  /\ jobs[1].pc = "done" /\ jobs[2].pc = "done"

InFlight == {j \in 1..Len(jobs) : jobs[j].pc \notin {"idle", "done"}}

\* C4: the jobs that have started and not finished are never more than the
\* concurrency limit max(1, floor(0.95 * cpus)); on the stream, the running
\* events exceed the terminal item updates by at most that limit.
C4_InFlightBounded ==
  LET floored == (env.cpuCount * 95) \div 100
      limit == IF floored < 1 THEN 1 ELSE floored
  IN  /\ Cardinality(InFlight) <= limit
      /\ Cardinality(RunningEvents) - Cardinality(ItemTerminalEvents) <= limit

C4_Witness ==
  /\ maxConcurrent = 2
  /\ Cardinality(InFlight) = 2
  /\ NumSpecs = 3

\* C5: in every final_results event total_apps = successful_apps +
\* failed_apps (and the two lists have those lengths).
C5_SummaryCounts ==
  \A p \in FinalEvents :
    LET summary == stream[p].results
    IN  /\ summary.total_apps = summary.successful_apps + summary.failed_apps
        /\ summary.total_apps = NumSpecs
        /\ Len(summary.results.successful) = summary.successful_apps
        /\ Len(summary.results.failed) = summary.failed_apps

C5_Witness ==
  \E p \in FinalEvents :
    /\ stream[p].results.successful_apps >= 1
    /\ stream[p].results.failed_apps >= 1

ResolvableRow(row) == row.enoughCells /\ row.name # <<>> /\ row.description # <<>>

\* The requests the claim C6 calls input errors.
InputErrorRequest ==
  \/ request.kind = "json" /\ request.valid /\ request.ideas = <<>>
  \/ request.kind = "form" /\ request.csvFile.absent
  \/ /\ request.kind = "form"
     /\ ~request.csvFile.absent
     /\ \/ ~(RequiredColumns \subseteq request.csvFile.columns)
        \/ \A r \in 1..Len(request.csvFile.rows) : ~ResolvableRow(request.csvFile.rows[r])

\* C6: on an input error no item update and no final_results is ever
\* emitted, generateApp is called for no specification, nothing is written,
\* and the finished stream is exactly one error event.
C6_InputErrorAborts ==
  InputErrorRequest =>
    /\ ItemUpdateEvents = {}
    /\ FinalEvents = {}
    /\ \A j \in 1..Len(jobs) : jobs[j].pc = "idle"
    /\ disk = {}
    /\ pc \in {"finally", "done"} => Len(stream) = 1 /\ IsError(stream[1])

C6_Witness ==
  /\ request.kind = "form"
  /\ ~request.csvFile.absent
  /\ ~(RequiredColumns \subseteq request.csvFile.columns)
  /\ pc = "done"
  /\ Len(stream) = 1

Settled(j) == ~jobs[j].settled.pending

\* C7 as claimed: generateApp never raises, and a failure in any step, the
\* deployment included, is returned with success false, a non-empty error
\* message and a generation_time.
C7_Original ==
  \A j \in 1..Len(jobs) :
    (Settled(j) /\ jobs[j].failedStep # "none")
      => /\ ~jobs[j].settled.threw
         /\ ~jobs[j].settled.value.success
         /\ jobs[j].settled.value.error # Message("")
         /\ "generation_time" \in DOMAIN jobs[j].settled.value

\* C7 as amended: generateApp never raises.  A failure of the directory
\* creation, the service call, a file write, the import validation, the
\* config overlay or the final file listing is returned with success false,
\* a generation_time and, as error, the message of the Error that was
\* raised ('Unknown error' when what was raised is not an Error).  A failed
\* deployment is returned with success true, deployment_status failed and
\* no deployment_url.
C7_FailuresReturned ==
  \A j \in 1..Len(jobs) :
    Settled(j) =>
      /\ ~jobs[j].settled.threw
      /\ "generation_time" \in DOMAIN jobs[j].settled.value
      /\ jobs[j].failedStep \in {"mkdir", "service", "write", "validate", "config", "list"}
           => /\ ~jobs[j].settled.value.success
              /\ jobs[j].settled.value.error =
                   (IF jobs[j].raised.isError THEN jobs[j].raised.message
                    ELSE Message("Unknown error"))
      /\ jobs[j].failedStep = "deploy"
           => /\ jobs[j].settled.value.success
              /\ jobs[j].settled.value.deployment_status = "failed"
              /\ jobs[j].settled.value.deployment_url = Undefined
      /\ jobs[j].failedStep = "none" => jobs[j].settled.value.success

C7_Witness ==
  \E j \in 1..Len(jobs) :
    /\ Settled(j)
    /\ jobs[j].failedStep = "list"
    /\ jobs[j].deployCalled
    /\ ~jobs[j].settled.value.success

\* C8: a failed job does not stop the batch.  Once an item update is on the
\* stream no error event follows and the finished stream holds final_results;
\* when final_results is emitted every specification has its
\* running event, its terminal update and exactly one result, in input
\* order, the failed ones in the failed list.
C8_JobIsolation ==
  /\ ItemUpdateEvents # {} => ErrorEvents = {}
  /\ (pc = "done" /\ ItemUpdateEvents # {}) => FinalEvents # {}
  /\ \A p \in FinalEvents :
       /\ Len(results) = NumSpecs
       /\ \A j \in 1..NumSpecs : /\ jobs[j].pc = "done"
                                 /\ results[j].app_name = specifications[j].name
                                 /\ results[j] = jobs[j].callback.value
       /\ Cardinality(RunningEvents) = NumSpecs
       /\ Cardinality(ItemTerminalEvents) = NumSpecs
       /\ stream[p].results.results.failed = SelectSeq(results, LAMBDA r : ~r.success)
       /\ stream[p].results.results.successful = SelectSeq(results, LAMBDA r : r.success)

C8_Witness ==
  /\ FinalEvents # {}
  /\ NumSpecs = 3
  /\ maxConcurrent = 2
  /\ ~results[1].success
  /\ results[2].success
  /\ results[3].success

ValidationRan(j) ==
  /\ jobs[j].pc \in {"validated", "configured", "deploying", "returned", "done"}
  /\ jobs[j].failedStep \notin {"mkdir", "service", "write"}

\* The unresolved imports of a FileSet, by the validator's candidate rule:
\* the pairs of a file and the import path it names.
Unresolved(files) ==
  UNION { LET imports == ExtractImports(files[f].content)
          IN  { <<files[f].path, imports[m]>> :
                  m \in { n \in 1..Len(imports) :
                            /\ IsValidatedImport(imports[n])
                            /\ ~ImportExists(files, files[f].path, imports[n]) } } :
          f \in { g \in 1..Len(files) : IsCheckedFile(files[g].path) } }

\* C9: a job whose FileSet fails import validation never has deployApp
\* called, and generateApp returns success false with an error message that
\* lists each unresolved import under the path it is written with.
C9_ValidationBlocksDeploy ==
  \A j \in 1..Len(jobs) :
    ValidationRan(j) =>
      LET unresolved == Unresolved(jobs[j].files)
      IN  unresolved # {} =>
            /\ ~jobs[j].deployCalled
            /\ jobs[j].pc \notin {"validated", "configured", "deploying"}
            /\ Settled(j)
            /\ ~jobs[j].settled.threw
            /\ ~jobs[j].settled.value.success
            /\ \A u \in unresolved :
                 \E e \in 1..Len(jobs[j].settled.value.error.missing) :
                   /\ jobs[j].settled.value.error.missing[e].filePath = u[1]
                   /\ jobs[j].settled.value.error.missing[e].importPath = u[2]

C9_Witness ==
  \E j \in 1..Len(jobs) :
    /\ jobs[j].pc = "done"
    /\ jobs[j].failedStep = "validate"
    /\ jobs[j].settled.value.error.missing
         = << [filePath |-> PagePath,
               importPath |-> <<"@", "/", "components", "/", "Missing">>] >>

\* The resolution rule of the claim C10: the alias prefix stripped, or the
\* path joined with the importing file's directory and its "." and ".."
\* segments normalized, then the exact path or one of the four extensions.
ClaimCandidates(target) ==
  { target, target \o TsxExt, target \o TsExt,
    target \o <<"/", "index">> \o TsxExt, target \o <<"/", "index">> \o TsExt }

ClaimTarget(filePath, importPath) ==
  IF StartsWith(importPath, AliasPrefix)
    THEN SubSeq(importPath, 3, Len(importPath))
  ELSE PathNormalize(PathJoin(PathDirname(filePath), importPath))

ClaimResolves(files, filePath, importPath) ==
  \E c \in ClaimCandidates(ClaimTarget(filePath, importPath)) : HasKey(files, c)

IsImportStatement(stmt) ==
  stmt.kind \in {"import_from", "import_side", "import_multiline", "export_from"}

AllImportsResolve(files) ==
  \A f \in 1..Len(files) : \A m \in 1..Len(files[f].content) :
    LET stmt == files[f].content[m]
    IN  (IsImportStatement(stmt)
         /\ (StartsWith(stmt.path, Dot) \/ StartsWith(stmt.path, AliasPrefix)))
          => ClaimResolves(files, files[f].path, stmt.path)

\* C10: validateImports does not throw on a FileSet in which every relative
\* or aliased import resolves to a key among the exact path, path.tsx,
\* path.ts, path/index.tsx and path/index.ts.
C10_ResolvedAccepted ==
  (~verdict.pending /\ AllImportsResolve(fileSet)) => ~verdict.threw

\* The statements the claim C11 calls imports: an import written on one
\* line or on several, with or without a from clause.
IsImportOfSource(stmt) == stmt.kind \in {"import_from", "import_side", "import_multiline"}

IsLocalPath(importPath) == StartsWith(importPath, Dot) \/ StartsWith(importPath, AliasPrefix)

Listed(failure, filePath, importPath) ==
  \E e \in 1..Len(failure.message.missing) :
    /\ failure.message.missing[e].filePath = filePath
    /\ failure.message.missing[e].importPath = importPath

\* C11: when a .ts or .tsx file of the FileSet holds a relative or aliased
\* import that matches no candidate key, validateImports throws and its
\* message lists that file with the reference as written, for every such
\* reference.
C11_UnresolvedListed ==
  ~verdict.pending =>
    \A f \in 1..Len(fileSet) : \A m \in 1..Len(fileSet[f].content) :
      LET stmt == fileSet[f].content[m]
      IN  (/\ IsCheckedFile(fileSet[f].path)
           /\ IsImportOfSource(stmt)
           /\ IsLocalPath(stmt.path)
           /\ ~ClaimResolves(fileSet, fileSet[f].path, stmt.path))
            => (verdict.threw /\ Listed(verdict.error, fileSet[f].path, stmt.path))

IsExternal(importPath) == ~IsLocalPath(importPath)

\* The FileSet without its imports of external packages.
WithoutExternal(files) ==
  [f \in 1..Len(files) |->
     File(files[f].path,
          SelectSeq(files[f].content,
                    LAMBDA stmt : ~(IsImportOfSource(stmt) /\ IsExternal(stmt.path))))]

\* C12: an import whose path starts with neither "." nor "@/" is never in
\* the failure list, and the outcome of validateImports is the outcome it
\* has on the FileSet without those imports, whatever keys the FileSet has.
C12_ExternalSkipped ==
  ~verdict.pending =>
    /\ verdict.threw =>
         \A e \in 1..Len(verdict.error.message.missing) :
           ~IsExternal(verdict.error.message.missing[e].importPath)
    /\ verdict = validateImports(WithoutExternal(fileSet))

C12_Witness ==
  /\ ~verdict.pending
  /\ ~verdict.threw
  /\ Len(fileSet[1].content) >= 1
  /\ fileSet[1].path = <<"page", ".", "tsx">>
  /\ fileSet[1].content[1] = Stmt("import_from", <<"react">>)
  /\ HasKey(fileSet, <<"react", ".", "ts">>)

DeployReturned == deployer.pc = "returned"

\* C13: deployApp called with a token the API refuses or with no token
\* does not raise and returns success true with a URL that contains
\* 'devshop.local'.
C13_DemoWithoutToken ==
  (DeployReturned /\ deployer.token \in {"invalid", "absent"})
    => /\ ~deployer.result.threw
       /\ deployer.result.value.success
       /\ Includes(deployer.result.value.url, DemoHost)

\* C14: with a valid token, once the deployment request is accepted
\* deployApp has returned success true with the remote URL, which does not
\* contain 'devshop.local', and it made no status poll before returning.
C14_ReturnsOnAcceptance ==
  (deployer.token = "valid" /\ deployer.accepted)
    => /\ DeployReturned
       /\ deployer.polls = 0
       /\ ~deployer.result.threw
       /\ deployer.result.value.success
       /\ deployer.result.value.url = RemoteUrl(deployer.appName)
       /\ ~Includes(deployer.result.value.url, DemoHost)

\* C15: deployApp called with a token returns success true whatever step of
\* the primary strategy raised; when a step raised the URL is the demo URL
\* of the app, which contains 'devshop.local', and when none did the URL
\* does not contain it.
C15_FallbackToDemo ==
  (DeployReturned /\ deployer.token # "absent")
    => /\ ~deployer.result.threw
       /\ deployer.result.value.success
       /\ deployer.raised # "none"
            => /\ deployer.result.value = createDemoDeployment(deployer.appName)
               /\ Includes(deployer.result.value.url, DemoHost)
       /\ deployer.raised = "none" => ~Includes(deployer.result.value.url, DemoHost)

C15_Witness ==
  /\ DeployReturned
  /\ deployer.token = "valid"
  /\ deployer.raised = "deployment"
  /\ EndsWith(deployer.result.value.url, DemoHost)

TerminalStates == {"READY", "ERROR", "CANCELED"}

\* C16: a background monitor makes at most 20 polls; while it polls, no
\* poll so far found READY, ERROR or CANCELED and fewer than 20 rounds are
\* used, so another poll follows; it stops at the poll that finds one of
\* the three, or with the timeout log at the 20th poll that finds none.
C16_MonitorBounded ==
  \A j \in DOMAIN monitors :
    LET monitor == monitors[j]
    IN  /\ monitor.polls <= MonitorAttempts
        /\ monitor.state = "polling"
             => /\ monitor.attempt < MonitorAttempts
                /\ monitor.polls = monitor.attempt
                /\ monitor.last \notin TerminalStates
                /\ monitor.log = "none"
        /\ monitor.state = "stopped"
             => \/ /\ monitor.log = "ready"
                   /\ monitor.last = "READY"
                   /\ monitor.polls = monitor.attempt + 1
                \/ /\ monitor.log = "failed"
                   /\ monitor.last \in {"ERROR", "CANCELED"}
                   /\ monitor.polls = monitor.attempt + 1
                \/ /\ monitor.log = "timeout"
                   /\ monitor.last \notin TerminalStates
                   /\ monitor.polls = MonitorAttempts
                   /\ monitor.attempt = MonitorAttempts

C16_Witness ==
  /\ 1 \in DOMAIN monitors
  /\ monitors[1].state = "stopped"
  /\ monitors[1].log = "timeout"
  /\ monitors[1].last = "network_error"

\* C17: a step of a background monitor changes no event of the stream, no
\* job, no collected result and not the position of the handler; the
\* deployment result of a monitored job says deployed with the remote URL
\* whatever the monitor logs, and so does its successful job result; the window
\* barrier and the final_results event are ready as soon as the jobs are,
\* whatever the monitors do.
C17_MonitorDetached ==
  /\ [][\A j \in DOMAIN monitors :
          monitors'[j] # monitors[j]
            => /\ stream' = stream
               /\ jobs' = jobs
               /\ results' = results
               /\ pc' = pc
               /\ controller' = controller]_vars
  /\ [](\A j \in DOMAIN monitors :
          /\ jobs[j].deploymentStatus = "deployed"
          /\ jobs[j].deploymentUrl = RemoteUrl(specifications[j].name)
          /\ (Settled(j) /\ jobs[j].settled.value.success)
               => /\ jobs[j].settled.value.deployment_status = "deployed"
                  /\ jobs[j].settled.value.deployment_url = RemoteUrl(specifications[j].name))
  /\ []((pc = "await" /\ AllFulfilled) => ENABLED WindowSettle)
  /\ [](pc = "summary" => ENABLED EmitFinal)

C17_Witness ==
  /\ pc = "done"
  /\ FinalEvents # {}
  /\ NumSpecs = 2
  /\ 1 \in DOMAIN monitors
  /\ 2 \in DOMAIN monitors
  /\ monitors[1].log = "failed"
  /\ monitors[2].state = "polling"
  /\ monitors[2].polls = 0
  /\ results[1].deployment_status = "deployed"

\* The jobs whose deployApp call settled and whose final file listing did
\* not raise.
PastDeployment ==
  {j \in 1..Len(jobs) : jobs[j].deployCalled /\ Settled(j) /\ jobs[j].failedStep # "list"}

\* C18: a job that reached the deployment step returns success true
\* whatever deployApp returned or raised (unless the file listing after it
\* raises), and every such job is one of the successful_apps of the
\* final_results event, with the deployment_status the step left.
C18_DeploymentNeverFails ==
  /\ \A j \in PastDeployment :
       /\ ~jobs[j].settled.threw
       /\ jobs[j].settled.value.success
       /\ jobs[j].settled.value.deployment_status \in {"deployed", "failed"}
  /\ \A p \in FinalEvents :
       LET successful == stream[p].results.results.successful
       IN  /\ stream[p].results.successful_apps >= Cardinality(PastDeployment)
           /\ \A j \in PastDeployment :
                \E n \in 1..Len(successful) :
                  /\ successful[n].app_name = specifications[j].name
                  /\ successful[n].deployment_status = jobs[j].deploymentStatus

C18_Witness ==
  /\ FinalEvents # {}
  /\ \E j \in PastDeployment :
       /\ jobs[j].failedStep = "deploy"
       /\ jobs[j].settled.value.deployment_status = "failed"
       /\ results[j].success

TerminalStatuses == {"completed", "error", "deployed", "deploying"}

EventsOf(name, events) == {p \in events : stream[p].app_name = name}

\* C19: for every specification the stream holds at most one pending event
\* (progress 0), one running event (progress 25) and one item update of
\* progress 100, whose status is completed, error, deployed or deploying;
\* the running event follows the pending one, the terminal one follows the
\* running one and no item update of that name follows the terminal one; a
\* callback that returned has emitted its terminal event, and under
\* final_results every specification has exactly one event of each kind.
C19_ItemLifecycle ==
  \A j \in 1..NumSpecs :
    LET name == specifications[j].name
        pend == EventsOf(name, PendingEvents)
        run == EventsOf(name, RunningEvents)
        term == EventsOf(name, ItemTerminalEvents)
    IN  /\ Cardinality(pend) <= 1
        /\ Cardinality(run) <= 1
        /\ Cardinality(term) <= 1
        /\ EventsOf(name, ItemUpdateEvents) = pend \cup run \cup term
        /\ \A p \in pend : stream[p].status = "pending" /\ stream[p].progress = 0
        /\ \A r \in run : /\ stream[r].status = "running"
                          /\ stream[r].progress = 25
                          /\ \E p \in pend : p < r
        /\ \A t \in term : /\ stream[t].status \in TerminalStatuses
                           /\ stream[t].progress = 100
                           /\ \E r \in run : r < t
                           /\ \A q \in EventsOf(name, ItemUpdateEvents) : q <= t
        /\ (j <= Len(jobs) /\ jobs[j].pc = "done" /\ ~jobs[j].callback.threw) => term # {}
        /\ FinalEvents # {}
             => Cardinality(pend) = 1 /\ Cardinality(run) = 1 /\ Cardinality(term) = 1

C19_Witness ==
  /\ FinalEvents # {}
  /\ NumSpecs = 3
  /\ {stream[t].status : t \in ItemTerminalEvents} = {"error", "deployed"}

\* C20: every path writeGeneratedFiles has written lies inside
\* outputDirectory/<sanitized name> of its job.
C20_WritesInsideJobDirectory ==
  pc \in {"write", "returned"}
    => \A written \in disk : StartsWith(written, AppDir(specifications[1]) \o <<"/">>)

WellFormed(text) == \A n \in 1..Len(text) : text[n].valid

\* C21: the decoded FileSet has one entry per entry of the response, with
\* the same path; a string entry keeps its content, a base64 entry with a
\* well-formed text holds the content that text encodes, and a base64 entry
\* whose text is empty or not well-formed holds empty content.
C21_DecodeKeepsEntries ==
  (pc = "decode" /\ ~verdict.pending)
    => /\ ~verdict.threw
       /\ Len(verdict.value) = Len(fileSet)
       /\ \A n \in 1..Len(fileSet) :
            LET entry == fileSet[n]
                decoded == verdict.value[n]
            IN  /\ decoded.path = entry.path
                /\ entry.value.kind = "string" => decoded.content = entry.value.text
                /\ entry.value.kind \in {"encoded", "b64"}
                     => IF entry.value.text # <<>> /\ WellFormed(entry.value.text)
                          THEN Base64(decoded.content) = entry.value.text
                        ELSE decoded.content = <<>>

CredentialMessage ==
  Message("ANTHROPIC_API_KEY or ANTHROPIC_TOKEN environment variable is required")

\* C22: without the generation-service credential no job is created or
\* started, nothing is written, no item update and no final_results event is
\* emitted, and once the try block is left the stream is one error event,
\* which for a request with specifications says the credential is required.
C22_CredentialRequired ==
  ~env.anthropicKey
    => /\ jobs = <<>>
       /\ disk = {}
       /\ pc \in {"start", "catch", "finally", "done"}
       /\ ItemUpdateEvents = {}
       /\ FinalEvents = {}
       /\ pc \in {"finally", "done"}
            => /\ Len(stream) = 1
               /\ IsError(stream[1])
               /\ specifications # <<>> => stream[1].message = CredentialMessage

C22_Witness ==
  /\ ~env.anthropicKey
  /\ pc = "done"
  /\ Len(specifications) = 2
  /\ stream = <<ErrorEvent(CredentialMessage)>>
  /\ controller = "closed"

\* The paths job j has written when all its files are.
JobPaths(j) ==
  WrittenPaths(AppDir(specifications[j]), jobs[j].files, Len(jobs[j].files))

\* C23: two specifications of a batch with different names have different
\* job directories, and two jobs of one window have written no path in
\* common.
C23_DisjointDirectories ==
  \A a, b \in 1..Len(jobs) :
    (a # b /\ specifications[a].name # specifications[b].name)
      => /\ AppDir(specifications[a]) # AppDir(specifications[b])
         /\ WindowOf(a) = WindowOf(b) => JobPaths(a) \cap JobPaths(b) = {}

BatchStarted == pc = "pending"

BatchCompleted ==
  /\ FinalEvents # {}
  /\ i >= NumSpecs
  /\ \A j \in 1..NumSpecs : EventsOf(specifications[j].name, ItemTerminalEvents) # {}

\* C24: a batch that has started (the generator is built and the first
\* pending event is due) leads to a state where every window has been
\* processed, every specification has its terminal item update and the
\* final_results event is on the stream.
C24_BatchCompletes == BatchStarted ~> BatchCompleted

\* C25: after the consumer has disconnected no emission raises: no callback
\* of a job is rejected, the handler catches nothing and start() does not
\* reject, and the handler goes on through every window to the summary.
C25_DisconnectSilent ==
  controller = "cancelled"
    => /\ \A j \in 1..Len(jobs) : ~jobs[j].callback.threw
       /\ caught = NoError
       /\ ~startRejected
       /\ pc = "done" => i >= NumSpecs

\* C26: no step removes a path from the disk, and when generateApp has
\* returned for a job that failed import validation every entry of its
\* FileSet is on the disk under the job directory.
C26_FilesLeftInPlace ==
  /\ [][disk \subseteq disk']_vars
  /\ [](\A j \in 1..Len(jobs) :
          (Settled(j) /\ jobs[j].failedStep = "validate")
            => /\ Len(jobs[j].files) > 0
               /\ JobPaths(j) \subseteq disk)

C26_Witness ==
  \E j \in 1..Len(jobs) :
    /\ jobs[j].pc = "done"
    /\ jobs[j].failedStep = "validate"
    /\ ~jobs[j].settled.value.success
    /\ Cardinality(JobPaths(j)) = 2
    /\ JobPaths(j) \subseteq disk

\* C27: no enqueue and no close is attempted on a controller that is closed
\* already (no such attempt has raised out of a callback, out of the catch
\* block or out of the finally block), and when the handler is done the
\* controller is closed.
C27_ClosedExactlyOnce ==
  /\ ~startRejected
  /\ \A j \in 1..Len(jobs) : ~jobs[j].callback.threw
  /\ pc = "done" => controller = "closed"

\* C28: deploymentStatus is 'deploying' exactly while the job awaits
\* deployApp; a successful result of generateApp has deployment_status
\* pending, deployed or failed, and a terminal item update has status
\* completed, deployed or error.
C28_NeverDeploying ==
  /\ \A j \in 1..Len(jobs) :
       /\ jobs[j].deploymentStatus = "deploying" <=> jobs[j].pc = "deploying"
       /\ (Settled(j) /\ jobs[j].settled.value.success)
            => jobs[j].settled.value.deployment_status \in {"pending", "deployed", "failed"}
  /\ \A t \in ItemTerminalEvents : stream[t].status \in {"completed", "deployed", "error"}

C28_Witness ==
  \E j \in 1..Len(jobs) :
    /\ jobs[j].deployCalled
    /\ jobs[j].pc = "done"
    /\ jobs[j].settled.value.success
    /\ jobs[j].settled.value.deployment_status = "deployed"
    /\ \E t \in ItemTerminalEvents :
         stream[t].app_name = specifications[j].name /\ stream[t].status = "deployed"

\* C29: a successful result of generateApp has deployment_status deployed
\* exactly when it has a deployment_url, and an item update on the stream
\* has status deployed exactly when it carries a deployment_url.
C29_DeployedIffUrl ==
  /\ \A j \in 1..Len(jobs) :
       (Settled(j) /\ jobs[j].settled.value.success)
         => (jobs[j].settled.value.deployment_status = "deployed"
               <=> jobs[j].settled.value.deployment_url # Undefined)
  /\ \A p \in ItemUpdateEvents :
       stream[p].status = "deployed" <=> stream[p].deployment_url # Undefined

C29_Witness ==
  \E p \in ItemTerminalEvents, q \in ItemTerminalEvents :
    /\ stream[p].status = "deployed"
    /\ stream[p].deployment_url = createDemoDeployment(stream[p].app_name).url
    /\ stream[q].status = "completed"
    /\ stream[q].deployment_url = Undefined

\* The jobs whose callback returned a successful result without a
\* deployment: the deployment failed, or it was skipped and the status is
\* still pending.
NotDeployed ==
  {j \in 1..Len(jobs) :
     /\ jobs[j].pc = "done"
     /\ ~jobs[j].callback.threw
     /\ jobs[j].callback.value.success
     /\ jobs[j].callback.value.deployment_status \in {"failed", "pending"}}

\* C30: a job that succeeded with deployment_status failed or pending has
\* the terminal item update completed, and under final_results it is one of
\* the successful results and none of the failed ones.
C30_CompletedWithoutDeployment ==
  /\ \A j \in NotDeployed :
       \A t \in EventsOf(specifications[j].name, ItemTerminalEvents) :
         stream[t].status = "completed"
  /\ \A j \in NotDeployed : EventsOf(specifications[j].name, ItemTerminalEvents) # {}
  /\ \A p \in FinalEvents :
       LET summary == stream[p].results
       IN  /\ summary.successful_apps >= Cardinality(NotDeployed)
           /\ \A j \in NotDeployed :
                /\ \E n \in 1..Len(summary.results.successful) :
                     summary.results.successful[n] = jobs[j].callback.value
                /\ \A n \in 1..Len(summary.results.failed) :
                     summary.results.failed[n].app_name # specifications[j].name

C30_Witness ==
  /\ FinalEvents # {}
  /\ \E a, b \in NotDeployed :
       /\ jobs[a].callback.value.deployment_status = "failed"
       /\ jobs[b].callback.value.deployment_status = "pending"
       /\ ~jobs[b].deployCalled

====
